---- MODULE Spec2Model ----
(***************************************************************************)
(* Memory Bank MCP server (src/src/index.ts, class MemoryBankServer).      *)
(*                                                                         *)
(* Texts are sequences of tokens.  The three characters the section        *)
(* editor is sensitive to are tokens of their own: NL ("\n"), SP (" ") and *)
(* HASH ("#").  Every other token is a word: a non-empty run of characters *)
(* with no newline, no '#' and no leading or trailing blank.  The markers  *)
(* U+2713, U+2192 and U+26A0 of the progress block are written CHECK,      *)
(* ARROW and WARN.                                                         *)
(***************************************************************************)
EXTENDS Integers, Sequences, FiniteSets, TLC

NL == "\n"
SP == " "
HASH == "#"

(* ----------------------------------------------------------------------- *)
(* String primitives of the JavaScript runtime, on token sequences.        *)
(* ----------------------------------------------------------------------- *)

\* s.substring(i-1, j) with 1-based inclusive bounds
Sub(s, i, j) == [k \in 1..(j - i + 1) |-> s[i + k - 1]]

\* sep occurs in s at position i
OccursAt(s, sep, i) ==
    /\ i >= 1
    /\ i + Len(sep) - 1 <= Len(s)
    /\ \A k \in 1..Len(sep) : s[i + k - 1] = sep[k]

\* s.includes(sub)
Includes(s, sub) == \E i \in 1..(Len(s) + 1) : OccursAt(s, sub, i)

\* s.startsWith(prefix)
StartsWith(s, prefix) == OccursAt(s, prefix, 1)

\* s.endsWith(suffix)
EndsWith(s, suffix) == OccursAt(s, suffix, Len(s) - Len(suffix) + 1)

\* s.indexOf(sep, from): 0 when there is no occurrence at or after from
IndexOf(s, sep, from) ==
    LET hits == {i \in from..Len(s) : OccursAt(s, sep, i)}
    IN  IF hits = {} THEN 0 ELSE CHOOSE i \in hits : \A j \in hits : i <= j

\* s.split(sep) for a non-empty separator: leftmost occurrences, left to right
Split(s, sep) ==
    LET hits == {i \in 1..Len(s) : OccursAt(s, sep, i)}
        Piece[from \in 1..(Len(s) + Len(sep) + 1)] ==
            LET next == {i \in hits : i >= from}
            IN  IF next = {} THEN <<Sub(s, from, Len(s))>>
                ELSE LET i == CHOOSE i \in next : \A j \in next : i <= j
                     IN  <<Sub(s, from, i - 1)>> \o Piece[i + Len(sep)]
    IN  Piece[1]

\* parts.join(sep)
RECURSIVE Join(_, _)
Join(parts, sep) ==
    IF Len(parts) = 0 THEN <<>>
    ELSE IF Len(parts) = 1 THEN parts[1]
    ELSE parts[1] \o sep \o Join(Tail(parts), sep)

IsSpace(c) == c \in {NL, SP}

\* s.trim()
Trim(s) ==
    LET solid == {i \in 1..Len(s) : ~IsSpace(s[i])}
    IN  IF solid = {} THEN <<>>
        ELSE Sub(s, CHOOSE i \in solid : \A j \in solid : i <= j,
                    CHOOSE i \in solid : \A j \in solid : i >= j)

\* the items without their repetitions
BulletList_Distinct(items) ==
    LET firsts == SelectSeq([k \in 1..Len(items) |-> k],
                            LAMBDA k : \A j \in 1..(k - 1) : items[j] # items[k])
    IN  Join([k \in 1..Len(firsts) |-> <<"-", SP>> \o items[firsts[k]]], <<NL>>)

\* items.map(x => `- ${x}`).join('\n')
BulletList(items) ==
    Join([k \in 1..Len(items) |-> <<"-", SP>> \o items[k]], <<NL>>)

\* an optional array argument: absent (undefined) or a sequence of texts
NoList == [present |-> FALSE, items |-> <<>>]
List(items) == [present |-> TRUE, items |-> items]

\* a one-word text
W(x) == <<x>>

\* cond ? text : ''
If(cond, text) == IF cond THEN text ELSE <<>>

(* ----------------------------------------------------------------------- *)
(* Decision records (interface Decision).  title, description, rationale   *)
(* and impact are texts; an absent impact and an empty one are both falsy  *)
(* and are both <<>>.  date is a word, "" when absent.  status is a word;  *)
(* a decision sent without status has status undefined, which the template *)
(* renders as the word "undefined".                                        *)
(* ----------------------------------------------------------------------- *)

Statuses == {"proposed", "accepted", "rejected", "superseded"}
Undefined == "undefined"

Decision(title, description, rationale, status, impact, date, alternatives, related) ==
    [title |-> title, description |-> description, rationale |-> rationale,
     status |-> status, impact |-> impact, date |-> date,
     alternatives |-> alternatives, relatedDecisions |-> related]

SectionSep == <<NL, NL, HASH, HASH, SP>>
TechnicalLabel == "Technical Decisions"
PendingLabel == "Pending Decisions"

\* `### ${d.title} (${date})`
EntryHeading(title, date) ==
    <<HASH, HASH, HASH, SP>> \o title \o <<SP, "(", date, ")">>

\* the text of one decision inside formatDecisionLog's template
FormatDecision(d) ==
    EntryHeading(d.title, IF d.date # "" THEN d.date ELSE "No date")
    \o <<NL>> \o d.description
    \o <<NL, NL, "**Status:**", SP, d.status, NL>>
    \o If(d.impact # <<>>, <<"**Impact:**", SP>> \o d.impact \o <<NL>>)
    \o <<NL, "Rationale:", NL>> \o d.rationale \o <<NL, NL>>
    \o If(d.alternatives.present,
          <<"Alternatives Considered:", NL>> \o BulletList(d.alternatives.items) \o <<NL>>)
    \o <<NL>>
    \o If(d.relatedDecisions.present,
          <<"Related Decisions:", NL>> \o BulletList(d.relatedDecisions.items))

\* the two sections under other headings
formatDecisionLog_Renamed(decisions) ==
    <<HASH, SP, "Decision Log", NL, NL, HASH, HASH, SP, "Decisions Made", NL, NL>>
    \o Join([k \in 1..Len(decisions) |-> FormatDecision(decisions[k])], <<NL, NL>>)
    \o <<NL, NL, HASH, HASH, SP, "Open Decisions", NL>>

formatDecisionLog(decisions) ==
    <<HASH, SP, "Decision Log", NL, NL, HASH, HASH, SP, TechnicalLabel, NL, NL>>
    \o Join([k \in 1..Len(decisions) |-> FormatDecision(decisions[k])], <<NL, NL>>)
    \o <<NL, NL, HASH, HASH, SP, PendingLabel, NL>>

\* findLastIndex in place of findIndex
TargetSectionIndex_Last(sections) ==
    LET hits == {i \in 1..Len(sections) :
                    \/ StartsWith(sections[i], W(TechnicalLabel))
                    \/ StartsWith(sections[i], W(PendingLabel))}
    IN  IF hits = {} THEN 0 ELSE CHOOSE i \in hits : \A j \in hits : i >= j

\* sections.findIndex(s => s.startsWith('Technical Decisions') ||
\*                         s.startsWith('Pending Decisions')); 0 stands for -1
TargetSectionIndex(sections) ==
    LET hits == {i \in 1..Len(sections) :
                    \/ StartsWith(sections[i], W(TechnicalLabel))
                    \/ StartsWith(sections[i], W(PendingLabel))}
    IN  IF hits = {} THEN 0 ELSE CHOOSE i \in hits : \A j \in hits : i <= j

\* the block addDecision renders for a decision on the day `now`
NewDecision(decision, now) ==
    LET date == IF decision.date # "" THEN decision.date ELSE now
        alternatives == If(decision.alternatives.present,
                           <<NL, NL, "Alternatives Considered:", NL>>
                           \o BulletList(decision.alternatives.items))
        impact == If(decision.impact # <<>>, <<NL, "**Impact:**", SP>> \o decision.impact)
        related == If(decision.relatedDecisions.present,
                      <<NL, NL, "Related Decisions:", NL>>
                      \o BulletList(decision.relatedDecisions.items))
    IN  EntryHeading(decision.title, date)
        \o <<NL>> \o decision.description
        \o <<NL, NL, "**Status:**", SP, decision.status>> \o impact
        \o <<NL, NL, "Rationale:", NL>> \o decision.rationale \o alternatives \o related

\* the entry is put at the end of the text when no section is found
addDecision_Appending(current, decision, now) ==
    LET sections == Split(current, SectionSep)
        targetSectionIndex == TargetSectionIndex(sections)
    IN  IF targetSectionIndex = 0 THEN current \o <<NL, NL>> \o NewDecision(decision, now)
        ELSE Join([sections EXCEPT ![targetSectionIndex] =
                       Trim(@) \o <<NL, NL>> \o NewDecision(decision, now)],
                  SectionSep)

addDecision(current, decision, now) ==
    LET sections == Split(current, SectionSep)
        targetSectionIndex == TargetSectionIndex(sections)
    IN  IF targetSectionIndex = 0 THEN current
        ELSE Join([sections EXCEPT ![targetSectionIndex] =
                       Trim(@) \o <<NL, NL>> \o NewDecision(decision, now)],
                  SectionSep)

\* the current text trimmed before the update is appended
mergeContext_Trimmed(current, update, now) ==
    Trim(current)
    \o <<NL, NL, HASH, HASH, SP, "Session Update", SP, "(", now, ")", NL>>
    \o <<"-", SP, "Mode:", SP>> \o update.currentSession.mode
    \o <<NL, "-", SP, "Task:", SP>> \o update.currentSession.task

\* `${current}\n\n## Session Update (${date})\n- Mode: ${mode}\n- Task: ${task}`
mergeContext(current, update, now) ==
    current
    \o <<NL, NL, HASH, HASH, SP, "Session Update", SP, "(", now, ")", NL>>
    \o <<"-", SP, "Mode:", SP>> \o update.currentSession.mode
    \o <<NL, "-", SP, "Task:", SP>> \o update.currentSession.task

(* ----------------------------------------------------------------------- *)
(* Project inspector.  A project directory is what initialize finds on     *)
(* disk: the manifest (package.json) and the recursive file listing.       *)
(* ----------------------------------------------------------------------- *)

Range(f) == {f[i] : i \in DOMAIN f}

\* x || fallback, for strings
OrElse(x, fallback) == IF x # "" THEN x ELSE fallback

\* a manifest: readable is FALSE when package.json is missing or does not parse
Manifest(readable, name, version, description, license, deps, devDeps) ==
    [readable |-> readable, name |-> name, version |-> version,
     description |-> description, license |-> license,
     dependencies |-> deps, devDependencies |-> devDeps]

NoManifest == Manifest(FALSE, "", "", "", "", <<>>, <<>>)

\* no defaults when package.json cannot be read
getProjectInfo_AsRead(manifest) ==
    [name |-> OrElse(manifest.name, "Unknown"),
     version |-> OrElse(manifest.version, "0.1.0"),
     description |-> OrElse(manifest.description, "No description provided"),
     license |-> OrElse(manifest.license, "Not specified"),
     dependencies |-> manifest.dependencies,
     devDependencies |-> manifest.devDependencies]

getProjectInfo(manifest) ==
    IF manifest.readable
    THEN [name |-> OrElse(manifest.name, "Unknown"),
          version |-> OrElse(manifest.version, "0.1.0"),
          description |-> OrElse(manifest.description, "No description provided"),
          license |-> OrElse(manifest.license, "Not specified"),
          dependencies |-> manifest.dependencies,
          devDependencies |-> manifest.devDependencies]
    ELSE [name |-> "Unknown", version |-> "0.1.0",
          description |-> "No description provided", license |-> "Not specified",
          dependencies |-> <<>>, devDependencies |-> <<>>]

\* validLanguages: extension -> label
validLanguages ==
    [js |-> "JavaScript", mjs |-> "JavaScript", jsx |-> "JavaScript (React)",
     ts |-> "TypeScript", tsx |-> "TypeScript (React)", py |-> "Python",
     rb |-> "Ruby", php |-> "PHP", java |-> "Java", go |-> "Go", rs |-> "Rust",
     c |-> "C", cpp |-> "C++", h |-> "C/C++ Header", cs |-> "C#",
     swift |-> "Swift", kt |-> "Kotlin", dart |-> "Dart"]

relevantConfigs ==
    {"package.json", "tsconfig.json", ".eslintrc", ".prettierrc", ".babelrc", ".env",
     "webpack.config.js", "vite.config.js", "next.config.js", ".gitignore",
     "jest.config.js", "rollup.config.js"}

\* frameworkDetection, in the key order Object.entries walks it
frameworkDetection ==
    << <<"react", "React">>, <<"next", "Next.js">>, <<"express", "Express">>,
       <<"vue", "Vue.js">>, <<"angular", "Angular">>, <<"svelte", "Svelte">>,
       <<"nestjs", "NestJS">>, <<"@nestjs/core", "NestJS">>, <<"fastify", "Fastify">>,
       <<"koa", "Koa">>, <<"gatsby", "Gatsby">>, <<"nuxt", "Nuxt.js">> >>

\* Set.add on an insertion-ordered set kept as a duplicate-free sequence
SetAdd_Again(set, x) == Append(set, x)

SetAdd(set, x) == IF x \in Range(set) THEN set ELSE Append(set, x)

RECURSIVE SetAddAll(_, _)
SetAddAll(set, items) ==
    IF items = <<>> THEN set ELSE SetAddAll(SetAdd(set, Head(items)), Tail(items))

\* [...new Set(items)]
Dedupe(items) == SetAddAll(<<>>, items)

\* the labels and the config names in the order Array.prototype.sort leaves them
LanguageOrder ==
    <<"C", "C#", "C++", "C/C++ Header", "Dart", "Go", "Java", "JavaScript",
      "JavaScript (React)", "Kotlin", "PHP", "Python", "Ruby", "Rust", "Swift",
      "TypeScript", "TypeScript (React)">>

ConfigOrder ==
    <<".babelrc", ".env", ".eslintrc", ".gitignore", ".prettierrc", "jest.config.js",
      "next.config.js", "package.json", "rollup.config.js", "tsconfig.json",
      "vite.config.js", "webpack.config.js">>

\* items.sort() for items drawn from the words of `order`
SortIn(order, items) ==
    LET Count(x) == Cardinality({i \in DOMAIN items : items[i] = x})
        Rep(x) == [k \in 1..Count(x) |-> x]
        F[i \in 0..Len(order)] == IF i = 0 THEN <<>> ELSE F[i - 1] \o Rep(order[i])
    IN  F[Len(order)]

\* a listed file: its extension (lower case, no dot) and its base name
File(ext, basename) == [ext |-> ext, basename |-> basename]

EmptyStack == [runtime |-> "Node.js", frameworks |-> <<>>, languages |-> <<>>, configs |-> <<>>]

\* dir.listable is FALSE when readdir fails; dir.files is the listing in readdir order
detectTechStack(dir) ==
    IF ~dir.listable THEN EmptyStack
    ELSE
      LET exts == [i \in DOMAIN dir.files |-> dir.files[i].ext]
          langHits == SelectSeq(exts, LAMBDA e : e \in DOMAIN validLanguages)
          languages == SetAddAll(<<>>, [i \in DOMAIN langHits |-> validLanguages[langHits[i]]])
          names == [i \in DOMAIN dir.files |-> dir.files[i].basename]
          configs == Dedupe(SelectSeq(names, LAMBDA n : n \in relevantConfigs))
          scanned == [EmptyStack EXCEPT !.languages = languages, !.configs = configs]
          allDeps == Range(dir.manifest.dependencies) \cup Range(dir.manifest.devDependencies)
          found == SelectSeq(frameworkDetection, LAMBDA e : e[1] \in allDeps)
      IN  IF ~dir.manifest.readable THEN scanned
          ELSE [scanned EXCEPT !.frameworks = [i \in DOMAIN found |-> found[i][2]]]

Directory(manifest, listable, files) ==
    [manifest |-> manifest, listable |-> listable, files |-> files]

\* words.join(', ')
CommaList(words) == Join([i \in DOMAIN words |-> W(words[i])], <<",", SP>>)

generateInitialDecisions(info, stack, now) ==
    << Decision(W("Initial Project Structure"),
                <<"Initialized", SP, info.name, SP, "with a modular architecture using",
                  SP, stack.runtime>>,
                W("Established foundation for scalable and maintainable development"),
                "accepted", W("Project-wide"), now, NoList, NoList) >>
    \o IF Len(stack.frameworks) > 0
       THEN << Decision(W("Framework Selection"),
                        <<"Selected", SP>> \o CommaList(stack.frameworks)
                        \o <<SP, "as primary framework(s)">>,
                        W("Chosen based on project requirements and team expertise"),
                        "accepted", W("Technical architecture"), now, NoList, NoList) >>
       ELSE <<>>

formatProjectContext(info, stack) ==
    LET corePackages == {"@types/node", "typescript", "ts-node", "nodemon"}
        keyDeps == SelectSeq(info.dependencies, LAMBDA d : d \notin corePackages)
        keyDevDeps == SelectSeq(info.devDependencies, LAMBDA d : d \notin corePackages)
        formatDeps(deps) ==
            IF Len(deps) > 0 THEN BulletList([i \in DOMAIN deps |-> W(deps[i])]) ELSE W("None")
        sortedConfigs == SortIn(ConfigOrder, stack.configs)
    IN  <<HASH, SP, "Project Context", NL, NL,
          HASH, HASH, SP, "Overview", NL,
          info.name, SP, "-", SP, info.description, NL,
          "Version:", SP, info.version, NL,
          "License:", SP, info.license, NL, NL,
          HASH, HASH, SP, "Technical Stack", NL,
          "Runtime:", SP, stack.runtime, NL>>
        \o If(Len(stack.languages) > 0,
              <<"Languages:", SP>> \o CommaList(SortIn(LanguageOrder, stack.languages)))
        \o <<NL>>
        \o If(Len(stack.frameworks) > 0, <<"Frameworks:", SP>> \o CommaList(stack.frameworks))
        \o <<NL, NL, HASH, HASH, SP, "Dependencies", NL, "Core:", NL>>
        \o formatDeps(keyDeps)
        \o <<NL, NL, "Development:", NL>>
        \o formatDeps(keyDevDeps)
        \o <<NL, NL, HASH, HASH, SP, "Configuration", NL>>
        \o BulletList([i \in DOMAIN sortedConfigs |-> W(sortedConfigs[i])])
        \o <<NL, NL, HASH, HASH, SP, "Architecture", NL, "-", SP, "Type:", SP>>
        \o (IF Len(stack.frameworks) > 0
            THEN <<"Framework-based", SP, "(">> \o CommaList(stack.frameworks) \o <<")">>
            ELSE W("Modular"))
        \o <<NL, "-", SP, "Language:", SP,
             IF Len(stack.languages) > 0 THEN stack.languages[1] ELSE "Not detected",
             NL, "-", SP, "Environment:", SP, "Node.js", NL>>
        \o If("@modelcontextprotocol/sdk" \in Range(info.dependencies),
              <<"-", SP, "MCP Server Implementation">>)
        \o <<NL>>

(* ----------------------------------------------------------------------- *)
(* Progress snapshots and the session tally.  A snapshot field is an       *)
(* optional list of task names (texts).  The three accumulator sets are    *)
(* JavaScript Sets: duplicate-free, in insertion order.                     *)
(* ----------------------------------------------------------------------- *)

Progress(completed, inProgress, blocked) ==
    [completed |-> completed, inProgress |-> inProgress, blocked |-> blocked]

Threshold == 10
CurrentPhase == "Development"

EmptyUpdates == [completed |-> <<>>, inProgress |-> <<>>, blocked |-> <<>>]

\* the state the constructor builds
NewSession(now) ==
    [questionCount |-> 0, lastPrompted |-> now, taskUpdates |-> EmptyUpdates]

\* progress.X?.forEach(task => set.add(task)), for the three lists
Accumulate(updates, progress) ==
    [completed |-> SetAddAll(updates.completed, progress.completed.items),
     inProgress |-> SetAddAll(updates.inProgress, progress.inProgress.items),
     blocked |-> SetAddAll(updates.blocked, progress.blocked.items)]

\* items.map(task => `- ${marker} ${task}`).join('\n')
MarkedList(marker, items) ==
    Join([k \in 1..Len(items) |-> <<"-", SP, marker, SP>> \o items[k]], <<NL>>)

\* what updateProgress appends to the current text
ProgressBlock(progress, questionCount, now) ==
    <<NL, NL, HASH, HASH, SP, "Update", SP, "(", now, ")", NL,
      "Phase:", SP, CurrentPhase, NL,
      "Questions Processed:", SP, ToString(questionCount), NL, NL, "Completed:", NL>>
    \o MarkedList("CHECK", progress.completed.items)
    \o <<NL, NL, "In Progress:", NL>>
    \o MarkedList("ARROW", progress.inProgress.items)
    \o If(progress.blocked.present,
          <<NL, NL, "Blocked:", NL>> \o MarkedList("WARN", progress.blocked.items))

\* checkAndPromptProgress: does the counter reach the threshold
Prompts_After(questionCount) == questionCount > Threshold

Prompts(questionCount) == questionCount >= Threshold

\* the snapshot saveProgressUpdate takes of the accumulator
Snapshot(updates) ==
    Progress(List(updates.completed), List(updates.inProgress), List(updates.blocked))

\* updateProgress(current, progress) in session state st on the day now, with
\* PROJECT_PATH = path.  threw: progress.completed or progress.inProgress is
\* undefined and .map raises a TypeError after the accumulator was updated.
\* spawned: the automatic save got as far as calling handleTrackProgress.
updateProgress(current, progress, st, now, path) ==
    LET updates == Accumulate(st.taskUpdates, progress)
        threw == ~progress.completed.present \/ ~progress.inProgress.present
        counted == st.questionCount + 1
        prompts == Prompts(counted)
        after == IF prompts
                 THEN [questionCount |-> 0, lastPrompted |-> now, taskUpdates |-> updates]
                 ELSE [st EXCEPT !.questionCount = counted, !.taskUpdates = updates]
    IN  IF threw
        THEN [threw |-> TRUE, st |-> [st EXCEPT !.taskUpdates = updates],
              spawned |-> FALSE, snapshot |-> Snapshot(updates), text |-> current]
        ELSE [threw |-> FALSE, st |-> after,
              spawned |-> prompts /\ path # "", snapshot |-> Snapshot(updates),
              text |-> current \o ProgressBlock(progress, after.questionCount, now)]

(* ----------------------------------------------------------------------- *)
(* The server process and the file system it works on.                     *)
(* ----------------------------------------------------------------------- *)

Docs == <<"projectContext.md", "activeContext.md", "progress.md", "decisionLog.md">>
DocNames == Range(Docs)

Absent == [exists |-> FALSE, text |-> <<>>]
Present(text) == [exists |-> TRUE, text |-> text]

VARIABLES
    files,          \* files[p][d]: document d under p/memory-bank
    dirs,           \* projects whose memory-bank directory exists
    settings,       \* project path registered in the MCP settings file, "" if none
    env,            \* process.env.PROJECT_PATH, "" when not set
    today,          \* index into Dates of the current date
    sessionState,   \* this.sessionState
    tasks,          \* handleTrackProgress invocations in flight
    response,       \* what the caller's last request returned
    crashed,        \* the process was terminated by an unhandled rejection
    log,            \* history: what the calls so far were given and produced
    calls,          \* number of requests of each kind made so far
    faults,         \* number of file-system failures so far
    budget          \* how many requests of each kind and failures a run explores

vars == <<files, dirs, settings, env, today, sessionState, tasks, response,
          crashed, log, calls, faults, budget>>

Dates == <<"2025-03-13", "2025-03-14">>
Now == Dates[today]
ClockTime == "10:00:00 AM"

activeContextTemplate(currentDate, currentTime) ==
    <<HASH, SP, "Active Context", NL, NL,
      HASH, HASH, SP, "Current Session", NL,
      "Started:", SP, currentDate, SP, currentTime, NL,
      "Mode:", SP, "Development", NL,
      "Current Task:", SP, "Initial Setup", NL, NL,
      HASH, HASH, SP, "Tasks", NL,
      HASH, HASH, HASH, SP, "In Progress", NL,
      "-", SP, "[ ]", SP, "Project initialization", NL,
      "-", SP, "[ ]", SP, "Environment setup", NL, NL,
      HASH, HASH, SP, "Open Questions", NL,
      "-", SP, "What are the primary project goals?", NL,
      "-", SP, "What are the key technical requirements?", NL, NL,
      HASH, HASH, SP, "Recent Updates", NL,
      "-", SP, currentDate, ":", SP, "Project initialized">>

progressTemplate(currentDate) ==
    <<HASH, SP, "Progress Log", NL, NL,
      HASH, HASH, SP, "Current Phase", NL, "Initialization", NL, NL,
      HASH, HASH, SP, "Completed Tasks", NL,
      "-", SP, "Repository setup", SP, "(", currentDate, ")", NL,
      "-", SP, "Basic project structure", SP, "(", currentDate, ")", NL, NL,
      HASH, HASH, SP, "In Progress", NL,
      "-", SP, "Development environment configuration", NL,
      "-", SP, "Initial documentation", NL, NL,
      HASH, HASH, SP, "Upcoming", NL,
      "-", SP, "Code implementation", NL,
      "-", SP, "Testing setup", NL, NL,
      HASH, HASH, SP, "Blockers", NL, "[None currently identified]">>

\* the four files handleInitializeMemoryBank builds for a project directory
InitialFiles(dir, currentDate, currentTime) ==
    LET projectInfo == getProjectInfo(dir.manifest)
        techStack == detectTechStack(dir)
        initialDecisions == generateInitialDecisions(projectInfo, techStack, currentDate)
    IN  << formatProjectContext(projectInfo, techStack),
           activeContextTemplate(currentDate, currentTime),
           progressTemplate(currentDate),
           formatDecisionLog(
               initialDecisions
               \o << Decision(W("Development Workflow"),
                              W("Established initial development workflow and practices"),
                              W("Ensure consistent development process and code quality"),
                              "accepted", W("Development process"), currentDate,
                              List(<<W("Ad-hoc development process"),
                                     W("Waterfall methodology")>>),
                              NoList),
                     Decision(W("Documentation Strategy"),
                              W("Implemented automated documentation with memory bank"),
                              W("Maintain up-to-date project context and decision history"),
                              "accepted", W("Project documentation"), currentDate,
                              NoList, NoList) >>) >>

\* responses of the request dispatcher
\* a failure is an McpError: its code (kind), the handler's message (text) and
\* the message of the error the handler caught, which follows it (cause)
\* contents is the document a resource read returns
Ok(op, text) == [op |-> op, kind |-> "ok", text |-> text, cause |-> "", contents |-> <<>>]
Failed(op, kind, text, cause) ==
    [op |-> op, kind |-> kind, text |-> text, cause |-> cause, contents |-> <<>>]
NoResponse == [op |-> "", kind |-> "none", text |-> "", cause |-> "", contents |-> <<>>]

\* messages of the errors fs raises
NotFound == "ENOENT: no such file or directory"
Denied == "EACCES: permission denied"
TypeError == "TypeError: Cannot read properties of undefined"

\* request.params.arguments is undefined; an arguments object without projectPath
\* has projectPath "", one without its second field has NoArgument there
NoArguments == "no arguments"
NoArgument == [absent |-> TRUE]

DocIndex(d) == CHOOSE k \in 1..Len(Docs) : Docs[k] = d

CallerBusy == \E i \in DOMAIN tasks : tasks[i].origin = "caller"

\* the server accepts the caller's next request
Accepting == ~crashed /\ ~CallerBusy

MayFail == faults < budget.faults

NoBlocks == [d \in DocNames |-> <<>>]

\* history of one finished request
Last(op, project, ok, pre, post, input, block) ==
    [op |-> op, project |-> project, ok |-> ok, pre |-> pre, post |-> post,
     input |-> input, block |-> block]

(* A handler that throws before its first await.  Without an arguments     *)
(* object, reading or destructuring args raises a TypeError, which the     *)
(* dispatcher wraps (lines 255-259); with one that lacks a required        *)
(* field the handler throws InvalidParams itself.                          *)
Refuse(op, p, input, required) ==
    /\ response' = IF p = NoArguments
                   THEN Failed(op, "InternalError", "Tool execution failed", TypeError)
                   ELSE Failed(op, "InvalidParams", required, "")
    /\ log' = [log EXCEPT !.last = Last(op, p, FALSE, <<>>, <<>>, input, <<>>),
                          !.failed = IF op = "track_progress" THEN @ + 1 ELSE @]

\* the arguments do not pass the handler's check
Unusable(p, input) == p \in {NoArguments, ""} \/ input = NoArgument

\* the steps of handleInitializeMemoryBank that took effect when step failAt
\* failed: the mkdir, the writes in the order of Docs, the settings update
DirMade(failAt) == failAt >= 1

WrittenBefore_None(failAt) == IF failAt = 6 THEN DocNames ELSE {}

WrittenBefore(failAt) == {d \in DocNames : DocIndex(d) < failAt}

Registered_First(failAt) == failAt >= 1

Registered(failAt) == failAt = 6

(* initialize_memory_bank.  failAt names the step that fails: 0 the mkdir,  *)
(* k in 1..4 the write of Docs[k], 5 the settings update; 6 is success.    *)
(* The steps before the failing one have taken effect.                     *)
InitializeMemoryBank(p, dir, failAt) ==
    /\ Accepting
    /\ calls.initialize < budget.initialize
    /\ calls' = [calls EXCEPT !.initialize = @ + 1]
    /\ IF Unusable(p, dir)
       THEN /\ failAt = 6
            /\ Refuse("initialize_memory_bank", p, dir, "Project path is required")
            /\ UNCHANGED <<files, dirs, settings, faults>>
       ELSE /\ failAt = 6 \/ MayFail
            /\ LET content == InitialFiles(dir, Now, ClockTime)
                   written == WrittenBefore(failAt)
               IN  /\ files' = [files EXCEPT ![p] =
                                   [d \in DocNames |->
                                       IF d \in written THEN Present(content[DocIndex(d)])
                                       ELSE @[d]]]
                   /\ dirs' = IF DirMade(failAt) THEN dirs \cup {p} ELSE dirs
                   /\ settings' = IF Registered(failAt) THEN p ELSE settings
                   /\ response' =
                         IF failAt = 6
                         THEN Ok("initialize_memory_bank",
                                 "Memory Bank initialized successfully and MCP settings configured")
                         ELSE Failed("initialize_memory_bank", "InternalError",
                                     "Failed to initialize Memory Bank",
                                     IF failAt = 5 THEN "Failed to update MCP settings"
                                     ELSE Denied)
                   /\ log' = [log EXCEPT
                                 !.blocks[p] = [d \in DocNames |->
                                                   IF d \in written THEN <<>> ELSE @[d]],
                                 !.last = Last("initialize_memory_bank", p, failAt = 6,
                                               <<>>, <<>>, dir, <<>>)]
            /\ faults' = IF failAt = 6 THEN faults ELSE faults + 1
    /\ UNCHANGED <<env, today, sessionState, tasks, crashed, budget>>

\* a document that is not there is written as if it had been empty
EditDocument_Creating(op, p, d, input, updated, block, writeOk, okText, failText) ==
    LET file == files[p][d]
        ok == writeOk
    IN  /\ files' = IF ok THEN [files EXCEPT ![p][d] = Present(updated)] ELSE files
        /\ response' = IF ok THEN Ok(op, okText)
                       ELSE Failed(op, "InternalError", failText, Denied)
        /\ log' = [log EXCEPT
                      !.blocks[p][d] = IF ok THEN Append(@, block) ELSE @,
                      !.last = Last(op, p, ok, file.text,
                                    IF ok THEN updated ELSE file.text, input, block)]
        /\ faults' = IF ~writeOk THEN faults + 1 ELSE faults

(* A handler that reads one document, edits the text and writes it back    *)
(* in one piece (handleUpdateContext, handleRecordDecision).  writeOk is   *)
(* the outcome of fs.writeFile.                                            *)
EditDocument(op, p, d, input, updated, block, writeOk, okText, failText) ==
    LET file == files[p][d]
        ok == file.exists /\ writeOk
    IN  /\ files' = IF ok THEN [files EXCEPT ![p][d] = Present(updated)] ELSE files
        /\ response' = IF ok THEN Ok(op, okText)
                       ELSE Failed(op, "InternalError", failText,
                                   IF file.exists THEN Denied ELSE NotFound)
        /\ log' = [log EXCEPT
                      !.blocks[p][d] = IF ok THEN Append(@, block) ELSE @,
                      !.last = Last(op, p, ok, file.text,
                                    IF ok THEN updated ELSE file.text, input, block)]
        /\ faults' = IF file.exists /\ ~writeOk THEN faults + 1 ELSE faults

\* update_context
UpdateContext(p, content, writeOk) ==
    /\ Accepting
    /\ calls.context < budget.context
    /\ calls' = [calls EXCEPT !.context = @ + 1]
    /\ IF Unusable(p, content)
       THEN /\ writeOk
            /\ Refuse("update_context", p, content, "Project path and content are required")
            /\ UNCHANGED <<files, faults>>
       ELSE /\ writeOk \/ MayFail
            /\ LET current == files[p]["activeContext.md"].text
                   updated == mergeContext(current, content, Now)
               IN  EditDocument("update_context", p, "activeContext.md", content, updated,
                                Sub(updated, Len(current) + 1, Len(updated)), writeOk,
                                "Active context updated successfully",
                                "Failed to update context")
    /\ UNCHANGED <<dirs, settings, env, today, sessionState, tasks, crashed, budget>>

\* record_decision
RecordDecision(p, decision, writeOk) ==
    /\ Accepting
    /\ calls.decision < budget.decision
    /\ calls' = [calls EXCEPT !.decision = @ + 1]
    /\ IF Unusable(p, decision)
       THEN /\ writeOk
            /\ Refuse("record_decision", p, decision, "Project path and decision are required")
            /\ UNCHANGED <<files, faults>>
       ELSE /\ writeOk \/ MayFail
            /\ LET current == files[p]["decisionLog.md"].text
               IN  EditDocument("record_decision", p, "decisionLog.md", decision,
                                addDecision(current, decision, Now),
                                NewDecision(decision, Now), writeOk,
                                "Decision recorded successfully", "Failed to record decision")
    /\ UNCHANGED <<dirs, settings, env, today, sessionState, tasks, crashed, budget>>

(* Resources.  getFileNameFromUri gives "" where the code throws 'Invalid  *)
(* URI'.                                                                   *)
\* two identifiers resolved to each other's document
getFileNameFromUri_Swapped(uri) ==
    CASE uri = "memory://project/context" -> "projectContext.md"
      [] uri = "memory://active/context" -> "activeContext.md"
      [] uri = "memory://progress" -> "decisionLog.md"
      [] uri = "memory://decisions" -> "progress.md"
      [] OTHER -> ""

getFileNameFromUri(uri) ==
    CASE uri = "memory://project/context" -> "projectContext.md"
      [] uri = "memory://active/context" -> "activeContext.md"
      [] uri = "memory://progress" -> "progress.md"
      [] uri = "memory://decisions" -> "decisionLog.md"
      [] OTHER -> ""

\* the identifier is resolved before PROJECT_PATH is looked at
readResource_Resolved(path, uri, disk) ==
    LET fileName == getFileNameFromUri(uri)
    IN  IF fileName = ""
        THEN Failed("read_resource", "InternalError", "Failed to read resource", "Invalid URI")
        ELSE IF path = ""
        THEN Failed("read_resource", "InvalidRequest",
                    "PROJECT_PATH environment variable not set", "")
        ELSE IF ~disk[path][fileName].exists
        THEN Failed("read_resource", "InternalError", "Failed to read resource", NotFound)
        ELSE [Ok("read_resource", "text/markdown") EXCEPT
                 !.contents = disk[path][fileName].text]

\* the ReadResourceRequestSchema handler with PROJECT_PATH = path
readResource(path, uri, disk) ==
    LET fileName == getFileNameFromUri(uri)
    IN  IF path = ""
        THEN Failed("read_resource", "InvalidRequest",
                    "PROJECT_PATH environment variable not set", "")
        ELSE IF fileName = ""
        THEN Failed("read_resource", "InternalError", "Failed to read resource", "Invalid URI")
        ELSE IF ~disk[path][fileName].exists
        THEN Failed("read_resource", "InternalError", "Failed to read resource", NotFound)
        ELSE [Ok("read_resource", "text/markdown") EXCEPT
                 !.contents = disk[path][fileName].text]

\* resources/read
ReadResource(uri) ==
    /\ Accepting
    /\ response' = readResource(env, uri, files)
    /\ LET fileName == getFileNameFromUri(uri)
           read == [configured |-> env # "", known |-> fileName # "",
                    found |-> env # "" /\ fileName # "" /\ files[env][fileName].exists,
                    kind |-> response'.kind, cause |-> response'.cause]
       IN  log' = [log EXCEPT
                      !.last = Last("read_resource", env, response'.kind = "ok",
                                    <<>>, <<>>, [uri |-> uri], <<>>),
                      !.reads = @ \cup {read}]
    /\ UNCHANGED <<files, dirs, settings, env, today, sessionState, tasks, crashed,
                   calls, faults, budget>>

\* the date changes
Midnight ==
    /\ today < Len(Dates)
    /\ today' = today + 1
    /\ UNCHANGED <<files, dirs, settings, env, sessionState, tasks, response, crashed,
                   log, calls, faults, budget>>

(* ----------------------------------------------------------------------- *)
(* track_progress.  handleTrackProgress suspends at its two awaits, and    *)
(* updateProgress starts the automatic save without awaiting it, so an     *)
(* invocation is a task that takes two steps: the read with the            *)
(* synchronous code that follows it, and the write with the return.        *)
(* ----------------------------------------------------------------------- *)

Task(origin, no, projectPath, progress) ==
    [origin |-> origin, no |-> no, projectPath |-> projectPath, progress |-> progress,
     pc |-> "read", text |-> <<>>, block |-> <<>>]

RemoveAt(seq, i) == [k \in 1..(Len(seq) - 1) |-> IF k < i THEN seq[k] ELSE seq[k + 1]]

\* what an invocation read: its text without the block it added
Base(t) == Sub(t.text, 1, Len(t.text) - Len(t.block))

NoNames == [completed |-> {}, inProgress |-> {}, blocked |-> {}]

\* the names of a snapshot, list by list
NamesOf(progress) ==
    [completed |-> Range(progress.completed.items),
     inProgress |-> Range(progress.inProgress.items),
     blocked |-> Range(progress.blocked.items)]

Merge(a, b) ==
    [completed |-> a.completed \cup b.completed,
     inProgress |-> a.inProgress \cup b.inProgress,
     blocked |-> a.blocked \cup b.blocked]

\* the request is validated and fs.readFile is issued
CallTrackProgress(p, progress) ==
    /\ Accepting
    /\ calls.track < budget.track
    /\ calls' = [calls EXCEPT !.track = @ + 1]
    /\ IF Unusable(p, progress)
       THEN /\ Refuse("track_progress", p, progress, "Project path and progress are required")
            /\ UNCHANGED tasks
       ELSE /\ tasks' = Append(tasks, Task("caller", calls.track + 1, p, progress))
            /\ log' = [log EXCEPT !.given = Merge(@, NamesOf(progress))]
            /\ UNCHANGED response
    /\ UNCHANGED <<files, dirs, settings, env, today, sessionState, crashed, faults, budget>>

(* Task i ends with an error.  The caller's invocation answers with        *)
(* InternalError.  The automatic save's rejection has no handler: the      *)
(* runtime either reports it and goes on, or terminates the process, and   *)
(* then a request in flight is never answered.                             *)
Reject(i, after, dies) ==
    LET t == tasks[i]
    IN  IF t.origin = "caller"
        THEN /\ dies = FALSE
             /\ tasks' = after
             /\ response' = Failed("track_progress", "InternalError",
                                   "Failed to update progress",
                                   IF t.pc = "write" THEN Denied
                                   ELSE IF files[t.projectPath]["progress.md"].exists
                                        THEN TypeError
                                   ELSE NotFound)
             /\ log' = [log EXCEPT !.last = Last("track_progress", t.projectPath, FALSE,
                                                 <<>>, <<>>, t.progress, t.block),
                                   !.failed = @ + 1]
             /\ UNCHANGED crashed
        ELSE /\ crashed' = dies
             /\ tasks' = IF dies THEN <<>> ELSE after
             /\ response' = IF dies /\ CallerBusy
                            THEN Failed("track_progress", "closed", "", "")
                            ELSE response
             /\ log' = [log EXCEPT
                           !.autos[t.no].outcome = "failed",
                           !.dropped = IF dies /\ CallerBusy
                                       THEN (CHOOSE c \in Range(tasks) : c.origin = "caller").no
                                       ELSE @]

\* lines 741-742: the read completes and updateProgress runs
TrackRead(i, dies) ==
    /\ ~crashed
    /\ i \in DOMAIN tasks
    /\ tasks[i].pc = "read"
    /\ LET t == tasks[i]
           file == files[t.projectPath]["progress.md"]
           r == updateProgress(file.text, t.progress, sessionState, Now, env)
           block == Sub(r.text, Len(file.text) + 1, Len(r.text))
           started == [tasks EXCEPT ![i].pc = "write", ![i].text = r.text,
                                    ![i].block = block]
           prompted == ~r.threw /\ Prompts(sessionState.questionCount + 1)
           auto == [trigger |-> t.origin, no |-> t.no, snapshot |-> r.snapshot,
                    given |-> log.given, taken |-> Merge(log.taken, NamesOf(t.progress)),
                    outcome |-> IF r.spawned THEN "running" ELSE "skipped",
                    block |-> <<>>]
       IN  IF ~file.exists
           THEN /\ Reject(i, RemoveAt(tasks, i), dies)
                /\ UNCHANGED sessionState
           ELSE /\ sessionState' = r.st
                /\ IF r.threw
                   THEN Reject(i, RemoveAt(tasks, i), dies)
                   ELSE /\ dies = FALSE
                        /\ tasks' = IF r.spawned
                                    THEN Append(started,
                                                Task("auto", Len(log.autos) + 1, env, r.snapshot))
                                    ELSE started
                        /\ log' = [log EXCEPT
                                      !.taken = Merge(@, NamesOf(t.progress)),
                                      !.autos = IF prompted THEN Append(@, auto) ELSE @]
                        /\ UNCHANGED <<response, crashed>>
    /\ UNCHANGED <<files, dirs, settings, env, today, calls, faults, budget>>

\* line 743: fs.writeFile completes; on success the invocation returns in the
\* same turn: lines 745-752 for the caller, lines 905-908 for the automatic save
TrackWrite(i, writeOk, dies) ==
    /\ ~crashed
    /\ i \in DOMAIN tasks
    /\ tasks[i].pc = "write"
    /\ writeOk \/ MayFail
    /\ LET t == tasks[i]
           written == [log EXCEPT !.blocks[t.projectPath]["progress.md"] = Append(@, t.block)]
       IN  IF writeOk
           THEN /\ dies = FALSE
                /\ files' = [files EXCEPT ![t.projectPath]["progress.md"] = Present(t.text)]
                /\ tasks' = RemoveAt(tasks, i)
                /\ IF t.origin = "caller"
                   THEN /\ response' = Ok("track_progress", "Progress updated successfully")
                        /\ log' = [written EXCEPT
                                      !.last = Last("track_progress", t.projectPath, TRUE,
                                                    Base(t), t.text, t.progress, t.block)]
                        /\ UNCHANGED sessionState
                   ELSE /\ sessionState' = [sessionState EXCEPT !.taskUpdates = EmptyUpdates]
                        /\ log' = [written EXCEPT !.autos[t.no].outcome = "saved",
                                                  !.autos[t.no].block = t.block,
                                                  !.given = NoNames, !.taken = NoNames]
                        /\ UNCHANGED response
                /\ UNCHANGED <<crashed, faults>>
           ELSE /\ Reject(i, RemoveAt(tasks, i), dies)
                /\ faults' = faults + 1
                /\ UNCHANGED <<files, sessionState>>
    /\ UNCHANGED <<dirs, settings, env, today, calls, budget>>

(* ----------------------------------------------------------------------- *)
(* Runs.  A run is given the project paths and PROJECT_PATH values it      *)
(* explores, the inputs its requests draw from, and how many requests of   *)
(* each kind and how many file-system failures it explores.                *)
(* ----------------------------------------------------------------------- *)

Projects == {"/p", "/q"}

Budget(initialize, context, decision, track, failures) ==
    [initialize |-> initialize, context |-> context, decision |-> decision,
     track |-> track, faults |-> failures]

EmptyDisk == [p \in Projects |-> [d \in DocNames |-> Absent]]

\* the process right after the constructor, on a disk that holds `disk`
StartOn(disk, folders, paths, allowance) ==
    /\ files = disk
    /\ dirs = folders
    /\ settings = ""
    /\ env \in paths
    /\ today = 1
    /\ sessionState = NewSession(Dates[1])
    /\ tasks = <<>>
    /\ response = NoResponse
    /\ crashed = FALSE
    /\ log = [blocks |-> [p \in Projects |-> NoBlocks],
              last |-> Last("", "", FALSE, <<>>, <<>>, <<>>, <<>>),
              autos |-> <<>>, given |-> NoNames, taken |-> NoNames,
              failed |-> 0, dropped |-> 0, reads |-> {}]
    /\ calls = [initialize |-> 0, context |-> 0, decision |-> 0, track |-> 0]
    /\ faults = 0
    /\ budget = allowance

\* the process right after the constructor, on a disk with no memory bank
Start(paths, allowance) == StartOn(EmptyDisk, {}, paths, allowance)

\* the steps of the invocations of handleTrackProgress in flight
TrackStep ==
    \E i \in DOMAIN tasks, dies \in BOOLEAN :
        \/ TrackRead(i, dies)
        \/ \E writeOk \in BOOLEAN : TrackWrite(i, writeOk, dies)

\* inputs
MaxDecisions == 2
MaxFaults == 1

A == W("A")
B == W("B")
C == W("C")

DirBare == Directory(NoManifest, TRUE, <<File("md", "README.md")>>)

DirReact ==
    Directory(Manifest(TRUE, "demo", "1.0.0", "", "MIT",
                       <<"react", "@modelcontextprotocol/sdk">>, <<"typescript">>),
              TRUE,
              <<File("ts", "index.ts"), File("json", "package.json"), File("js", "a.js")>>)

Directories == {DirBare, DirReact}

\* a description with a second paragraph under a level-2 heading
HeadedText(heading) == <<"x", NL, NL, HASH, HASH, SP, heading, NL, "y">>

DecisionTexts == {W("d"), HeadedText(PendingLabel)}

DecisionExtras ==
    { [impact |-> <<>>, date |-> "", alternatives |-> NoList, related |-> NoList],
      [impact |-> W("i"), date |-> "2025-01-01",
       alternatives |-> List(<<A, B>>), related |-> List(<<C>>)],
      [impact |-> <<>>, date |-> "", alternatives |-> List(<<>>), related |-> NoList] }

Decisions ==
    { Decision(W("t"), text, W("r"), status, x.impact, x.date, x.alternatives, x.related) :
        text \in DecisionTexts, status \in Statuses, x \in DecisionExtras }

InitDecisions == Start({""}, Budget(1, 0, MaxDecisions, 0, MaxFaults))

NextDecisions ==
    \/ \E dir \in Directories, failAt \in 0..6 : InitializeMemoryBank("/p", dir, failAt)
    \/ \E decision \in Decisions, writeOk \in BOOLEAN : RecordDecision("/p", decision, writeOk)

SpecDecisions == InitDecisions /\ [][NextDecisions]_vars

(* ----------------------------------------------------------------------- *)
(* Properties of the decision log.                                         *)
(* ----------------------------------------------------------------------- *)

\* s without its trailing blanks
TrimEnd(s) ==
    LET solid == {i \in 1..Len(s) : ~IsSpace(s[i])}
    IN  IF solid = {} THEN <<>>
        ELSE Sub(s, 1, CHOOSE i \in solid : \A j \in solid : i >= j)

\* the level-2 sections of a text, and the position of the last token of section i
SectionsOf(text) == Split(text, SectionSep)

SectionEnd(sections, i) ==
    LET End[k \in 1..i] ==
            IF k = 1 THEN Len(sections[1])
            ELSE End[k - 1] + Len(SectionSep) + Len(sections[k])
    IN  End[i]

Labelled(text, label) ==
    LET sections == SectionsOf(text)
    IN  {i \in DOMAIN sections : StartsWith(sections[i], W(label))}

\* post is pre with the entry put at the end of section i of pre: everything
\* after the section is unchanged, and what comes before the entry is the text
\* up to the end of the section, blank lines aside
InsertedAtEndOf(pre, post, entry, i) ==
    LET end == SectionEnd(SectionsOf(pre), i)
        rest == Sub(pre, end + 1, Len(pre))
        kept == Sub(post, 1, Len(post) - Len(entry) - Len(rest))
    IN  /\ EndsWith(post, entry \o rest)
        /\ TrimEnd(kept) = TrimEnd(Sub(pre, 1, end))

PlacedIn(label, pre, post, entry) ==
    \E i \in Labelled(pre, label) : InsertedAtEndOf(pre, post, entry, i)

\* the last request was a record_decision that returned its confirmation, on a
\* log that had both sections
Recorded(statuses) ==
    /\ log.last.op = "record_decision"
    /\ log.last.ok
    /\ log.last.input.status \in statuses
    /\ Labelled(log.last.pre, TechnicalLabel) # {}
    /\ Labelled(log.last.pre, PendingLabel) # {}

\* C1: on a log with both sections, record_decision with status proposed puts
\* the new entry in the Pending Decisions section and not in Technical Decisions
C1_ProposedInPending ==
    Recorded({"proposed"}) =>
        /\ PlacedIn(PendingLabel, log.last.pre, log.last.post, log.last.block)
        /\ ~PlacedIn(TechnicalLabel, log.last.pre, log.last.post, log.last.block)

\* C2: on a log with both sections, record_decision with status accepted,
\* rejected or superseded puts the new entry in the Technical Decisions section
\* and not in Pending Decisions
C2_DecidedInTechnical ==
    Recorded({"accepted", "rejected", "superseded"}) =>
        /\ PlacedIn(TechnicalLabel, log.last.pre, log.last.post, log.last.block)
        /\ ~PlacedIn(PendingLabel, log.last.pre, log.last.post, log.last.block)

\* a rejected decision was recorded after an earlier record_decision
C2_Witness ==
    /\ Recorded({"rejected"})
    /\ calls.decision = 2
    /\ PlacedIn(TechnicalLabel, log.last.pre, log.last.post, log.last.block)

\* the blocks occur in the text one after the other, from position `from` on
RECURSIVE InOrderFrom(_, _, _)
InOrderFrom(text, blocks, from) ==
    IF blocks = <<>> THEN TRUE
    ELSE LET i == IndexOf(text, Head(blocks), from)
         IN  i # 0 /\ InOrderFrom(text, Tail(blocks), i + Len(Head(blocks)))

ContainsInOrder(text, blocks) == InOrderFrom(text, blocks, 1)

\* the text with all blanks taken out
Solid(text) == SelectSeq(text, LAMBDA c : ~IsSpace(c))

\* post is pre with the entry added at one place and nothing else, blanks aside
OnlyAddition(pre, post, entry) ==
    \E k \in 0..Len(pre) :
        Solid(post) = Solid(Sub(pre, 1, k) \o entry \o Sub(pre, k + 1, Len(pre)))

\* C3: record_decision never removes, rewrites or reorders an entry already in
\* the log: every entry recorded so far is in the log with its text (trailing
\* blanks aside), in the order of recording, and the last call added its entry
\* and nothing else
C3_EntriesKept ==
    \A p \in Projects :
        LET entries == log.blocks[p]["decisionLog.md"]
        IN  /\ ContainsInOrder(files[p]["decisionLog.md"].text,
                               [k \in DOMAIN entries |-> TrimEnd(entries[k])])
            /\ (log.last.op = "record_decision" /\ log.last.ok /\ log.last.project = p)
                   => OnlyAddition(log.last.pre, log.last.post, log.last.block)

(* ----------------------------------------------------------------------- *)
(* update_context on an active-context file that holds any text.           *)
(* ----------------------------------------------------------------------- *)

MaxLen == 3
MaxContext == 2

\* the texts of at most MaxLen tokens over a blank, a newline, '#' and a word
Alphabet == {NL, SP, HASH, "a"}
Texts == UNION {[1..n -> Alphabet] : n \in 0..MaxLen}

SessionUpdate(date, mode, task) ==
    [currentSession |-> [date |-> date, mode |-> mode, task |-> task]]

Contents ==
    { SessionUpdate("2025-03-13", mode, task) :
        mode \in {W("development"), <<"m", NL, NL, HASH, HASH, SP, "x">>},
        task \in {W("Implementing new feature"), <<SP>>} }

InitContext ==
    \E T \in Texts :
        StartOn([EmptyDisk EXCEPT !["/p"]["activeContext.md"] = Present(T)], {"/p"},
                {""}, Budget(0, MaxContext, 0, 0, MaxFaults))

NextContext ==
    \/ \E content \in Contents, writeOk \in BOOLEAN : UpdateContext("/p", content, writeOk)
    \/ Midnight

SpecContext == InitContext /\ [][NextContext]_vars

SessionHeading == <<NL, NL, HASH, HASH, SP, "Session Update", SP, "(">>

\* C9: update_context replaces any text T by T followed by one new
\* sub-section: T is a prefix of the result, the result is longer, what was
\* added starts a Session Update section and contains the mode and the task
C9_ContextAppended ==
    (log.last.op = "update_context" /\ log.last.ok) =>
        LET T == log.last.pre
            result == files[log.last.project]["activeContext.md"].text
            suffix == Sub(result, Len(T) + 1, Len(result))
        IN  /\ result = log.last.post
            /\ StartsWith(result, T)
            /\ Len(result) > Len(T)
            /\ StartsWith(suffix, SessionHeading)
            /\ Includes(suffix, log.last.input.currentSession.mode)
            /\ Includes(suffix, log.last.input.currentSession.task)

\* a second update was appended to a text that began with blanks
C9_Witness ==
    /\ log.last.op = "update_context"
    /\ log.last.ok
    /\ calls.context = 2
    /\ StartsWith(log.last.pre, <<NL, SP>>)
    /\ Includes(log.last.post, <<"Mode:", SP, "m", NL, NL, HASH, HASH, SP, "x">>)

(* ----------------------------------------------------------------------- *)
(* The server with all four tools.                                         *)
(* ----------------------------------------------------------------------- *)

MaxInit == 1
MaxTrack == 11

D == W("D")
E == W("E")

Snapshots ==
    { Progress(List(<<A, B>>), List(<<C>>), List(<<>>)),
      Progress(List(<<D, D>>), List(<<A>>), List(<<E>>)) }

Init == Start({"", "/p", "/q"}, Budget(MaxInit, 1, 1, MaxTrack, MaxFaults))

Next ==
    \/ \E p \in Projects, failAt \in 0..6 : InitializeMemoryBank(p, DirBare, failAt)
    \/ \E writeOk \in BOOLEAN :
          UpdateContext("/p", SessionUpdate("2025-03-13", W("development"), W("task")), writeOk)
    \/ \E writeOk \in BOOLEAN :
          RecordDecision("/p", Decision(W("t"), W("d"), W("r"), "accepted", <<>>, "",
                                        NoList, NoList), writeOk)
    \/ CallTrackProgress("/p", Progress(List(<<A, B>>), List(<<C>>), List(<<>>)))
    \/ TrackStep

Spec == Init /\ [][Next]_vars

(* ----------------------------------------------------------------------- *)
(* track_progress and the automatic save.  The first MaxVaried calls draw   *)
(* their progress from Snapshots, the calls after them repeat one.         *)
(* ----------------------------------------------------------------------- *)

MaxVaried == 3

SnapshotsAt(no) ==
    IF no <= MaxVaried THEN Snapshots
    ELSE {Progress(List(<<A, B>>), List(<<C>>), List(<<>>))}

InitProgress == Start({"", "/p", "/q"}, Budget(1, 0, 0, MaxTrack, MaxFaults))

NextProgress ==
    \/ InitializeMemoryBank("/p", DirBare, 6)
    \/ \E progress \in SnapshotsAt(calls.track + 1) : CallTrackProgress("/p", progress)
    \/ TrackStep

SpecProgress == InitProgress /\ [][NextProgress]_vars

(* ----------------------------------------------------------------------- *)
(* Properties of the progress document and of the automatic save.          *)
(* ----------------------------------------------------------------------- *)

Heading(d) ==
    <<HASH, SP,
      CASE d = "projectContext.md" -> "Project Context"
        [] d = "activeContext.md" -> "Active Context"
        [] d = "progress.md" -> "Progress Log"
        [] d = "decisionLog.md" -> "Decision Log">>

\* C4: every document begins with its top-level heading and contains, in the
\* order they were written, the blocks that update_context, record_decision,
\* track_progress and the automatic save have written to it since initialize
C4_BlocksKept ==
    \A p \in Projects, d \in DocNames :
        files[p][d].exists =>
            /\ StartsWith(files[p][d].text, Heading(d))
            /\ ContainsInOrder(files[p][d].text, log.blocks[p][d])

\* C6: progress updates never overlap: while one update is between its read
\* and its write no other update of the same document is, and the text it read
\* is still the text of the document
C6_NoOverlap ==
    \A i \in DOMAIN tasks :
        tasks[i].pc = "write" =>
            /\ \A j \in DOMAIN tasks \ {i} :
                   tasks[j].projectPath = tasks[i].projectPath => tasks[j].pc # "write"
            /\ Base(tasks[i]) = files[tasks[i].projectPath]["progress.md"].text

\* C8: a failure of the automatic save never costs the call that crossed the
\* threshold its answer
C8_SaveFailureHidden ==
    \A k \in DOMAIN log.autos :
        (log.autos[k].trigger = "caller" /\ log.autos[k].outcome = "failed")
            => log.dropped # log.autos[k].no

\* the lines of a block that carry the marker, and the names on them
Marked(block, marker) ==
    {i \in 1..Len(block) : OccursAt(block, <<"-", SP, marker, SP>>, i)}

ListedNames(block, marker) == {<<block[i + 4]>> : i \in Marked(block, marker)}

\* C10: track_progress with completed [A, B], inProgress [C] and blocked []
\* writes one completed line for A, one for B, one in-progress line for C and
\* no Blocked: header; the header is written only with a blocked item
C10_BlockedHeader ==
    (log.last.op = "track_progress" /\ log.last.ok) =>
        LET block == log.last.block
            progress == log.last.input
        IN  /\ ListedNames(block, "CHECK") = Range(progress.completed.items)
            /\ ListedNames(block, "ARROW") = Range(progress.inProgress.items)
            /\ Includes(block, W("Blocked:")) => Len(progress.blocked.items) >= 1

\* the calls whose progress document has been read
Processed ==
    calls.track - Cardinality({i \in DOMAIN tasks :
                                  tasks[i].origin = "caller" /\ tasks[i].pc = "read"})

\* an automatic save that was started, whatever became of it
Started(auto) == auto.outcome # "skipped"

\* a step that completes an automatic save leaves the accumulator empty
SaveClears ==
    \A k \in DOMAIN log.autos :
        (log.autos[k].outcome = "running" /\ log'.autos[k].outcome = "saved")
            => sessionState'.taskUpdates = EmptyUpdates

OneSaveStarted ==
    (env # "" /\ log.failed = 0 /\ calls.track <= Threshold + 1) =>
        /\ Len(log.autos) = (IF Processed >= Threshold THEN 1 ELSE 0)
        /\ \A k \in DOMAIN log.autos :
               /\ Started(log.autos[k])
               /\ log.autos[k].trigger = "caller"
               /\ log.autos[k].no = Threshold

ListsExactly(block, names) ==
    /\ ListedNames(block, "CHECK") = names.completed
    /\ ListedNames(block, "ARROW") = names.inProgress
    /\ ListedNames(block, "WARN") = names.blocked
    /\ \A marker \in {"CHECK", "ARROW", "WARN"} :
           Cardinality(Marked(block, marker)) = Cardinality(ListedNames(block, marker))

\* C7 as stated: the block of an automatic save lists exactly the distinct
\* names passed in the track_progress calls made since the last clear
C7_NamesOfCallsMade ==
    \A k \in DOMAIN log.autos :
        log.autos[k].outcome = "saved" =>
            ListsExactly(log.autos[k].block, log.autos[k].given)

NamesOfCallsRead ==
    \A k \in DOMAIN log.autos :
        log.autos[k].outcome = "saved" =>
            ListsExactly(log.autos[k].block, log.autos[k].taken)

\* C7, amended: the block of an automatic save lists exactly the distinct
\* names, each once in its list, passed in the track_progress calls whose
\* progress document was read since the accumulator was last cleared, and
\* the accumulator is empty when the save completes
C7_NamesOfCallsRead == [](NamesOfCallsRead) /\ [][SaveClears]_vars

C7_Witness ==
    \E k \in DOMAIN log.autos :
        /\ log.autos[k].outcome = "saved"
        /\ log.autos[k].taken.completed = {A, B, D}
        /\ log.autos[k].taken.blocked = {E}
        /\ log.autos[k].given = log.autos[k].taken
        /\ sessionState.taskUpdates = EmptyUpdates

(* ----------------------------------------------------------------------- *)
(* Rendered lists: record_decision and track_progress with lists that      *)
(* repeat items and are not in alphabetical order.                         *)
(* ----------------------------------------------------------------------- *)

MaxListed == 2

ItemLists == {NoList, List(<<B, A, B>>), List(<<C, C>>), List(<<>>)}

ListedDecisions ==
    { Decision(W("t"), W("d"), W("r"), status, <<>>, "", alternatives, related) :
        status \in {"accepted", Undefined},
        alternatives \in ItemLists, related \in ItemLists }

ListedProgress ==
    { Progress(List(completed), List(inProgress), blocked) :
        completed \in {<<B, A, B>>, <<A>>}, inProgress \in {<<C, A>>, <<>>},
        blocked \in {NoList, List(<<C, C>>)} }

InitLists == Start({""}, Budget(1, 0, 1, MaxListed, 0))

NextLists ==
    \/ InitializeMemoryBank("/p", DirBare, 6)
    \/ \E decision \in ListedDecisions : RecordDecision("/p", decision, TRUE)
    \/ \E progress \in ListedProgress : CallTrackProgress("/p", progress)
    \/ TrackStep

SpecLists == InitLists /\ [][NextLists]_vars

\* the items of the successive lines of text that start at pos with prefix
RECURSIVE Bullets(_, _, _)
Bullets(text, pos, prefix) ==
    LET at == pos + Len(prefix)
    IN  IF OccursAt(text, prefix, pos) /\ at <= Len(text)
        THEN <<W(text[at])>>
             \o (IF at + 1 <= Len(text) /\ text[at + 1] = NL
                 THEN Bullets(text, at + 2, prefix) ELSE <<>>)
        ELSE <<>>

\* the list that follows the line `header` in text
ListUnder(text, header, prefix) ==
    Bullets(text, IndexOf(text, <<header, NL>>, 1) + 2, prefix)

\* C11: the block of a caller's track_progress and the alternatives and
\* related-decisions lists of record_decision carry the supplied items in
\* the supplied order, one line per item, repetitions kept
C11_ItemsAsSupplied ==
    LET block == log.last.block
        input == log.last.input
    IN  /\ (log.last.op = "track_progress" /\ log.last.ok) =>
               /\ ListUnder(block, "Completed:", <<"-", SP, "CHECK", SP>>)
                      = input.completed.items
               /\ ListUnder(block, "In Progress:", <<"-", SP, "ARROW", SP>>)
                      = input.inProgress.items
               /\ input.blocked.present =>
                      ListUnder(block, "Blocked:", <<"-", SP, "WARN", SP>>)
                          = input.blocked.items
        /\ (log.last.op = "record_decision" /\ log.last.ok) =>
               /\ Includes(log.last.post, block)
               /\ input.alternatives.present =>
                      ListUnder(block, "Alternatives Considered:", <<"-", SP>>)
                          = input.alternatives.items
               /\ input.relatedDecisions.present =>
                      ListUnder(block, "Related Decisions:", <<"-", SP>>)
                          = input.relatedDecisions.items

C11_Witness ==
    /\ log.last.op = "track_progress"
    /\ log.last.ok
    /\ log.last.input.completed.items = <<B, A, B>>
    /\ log.last.input.blocked.items = <<C, C>>
    /\ \E k \in DOMAIN log.blocks["/p"]["decisionLog.md"] :
           LET entry == log.blocks["/p"]["decisionLog.md"][k]
           IN  /\ ListUnder(entry, "Alternatives Considered:", <<"-", SP>>) = <<B, A, B>>
               /\ ListUnder(entry, "Related Decisions:", <<"-", SP>>) = <<C, C>>

(* ----------------------------------------------------------------------- *)
(* record_decision on a decision log that was written or edited by hand.   *)
(* ----------------------------------------------------------------------- *)

EditedLogs ==
    { <<>>,
      <<HASH, SP, "Decision Log", NL>>,
      <<HASH, SP, "Decision Log", NL, NL, HASH, HASH, SP, "Decisions", NL, NL,
        HASH, HASH, HASH, SP, "t", SP, "(", "2025-01-01", ")", NL, "Technical Decisions">>,
      <<HASH, HASH, SP, TechnicalLabel, NL, NL, HASH, HASH, SP, "Notes", NL>>,
      <<HASH, SP, "Decision Log", NL, NL, HASH, HASH, SP, PendingLabel, NL>> }

DiskWith(p, d, text) ==
    [q \in Projects |-> [e \in DocNames |->
        IF q = p /\ e = d THEN Present(text) ELSE Absent]]

InitEdited ==
    \E text \in EditedLogs :
        StartOn(DiskWith("/p", "decisionLog.md", text), {"/p"}, {""},
                Budget(0, 0, MaxDecisions, 0, MaxFaults))

NextEdited ==
    \E decision \in Decisions, writeOk \in BOOLEAN : RecordDecision("/p", decision, writeOk)

SpecEdited == InitEdited /\ [][NextEdited]_vars

\* a level-2 heading with the label starts a line of the text
HasSection(text, label) ==
    \E i \in 1..Len(text) :
        /\ OccursAt(text, <<HASH, HASH, SP, label>>, i)
        /\ i = 1 \/ text[i - 1] = NL

NoDecisionSection(text) ==
    ~HasSection(text, TechnicalLabel) /\ ~HasSection(text, PendingLabel)

\* C12: record_decision on a log with neither a Technical Decisions nor a
\* Pending Decisions section leaves the text as it was and, unless the file
\* system fails, returns the normal confirmation
C12_DroppedSilently ==
    (log.last.op = "record_decision" /\ NoDecisionSection(log.last.pre)) =>
        /\ log.last.post = log.last.pre
        /\ files[log.last.project]["decisionLog.md"].text = log.last.pre
        /\ response.cause = "" =>
               response = Ok("record_decision", "Decision recorded successfully")

C12_Witness ==
    /\ log.last.op = "record_decision"
    /\ NoDecisionSection(log.last.pre)
    /\ Len(log.last.pre) > 0
    /\ response = Ok("record_decision", "Decision recorded successfully")
    /\ ~Includes(files["/p"]["decisionLog.md"].text, log.last.block)

(* ----------------------------------------------------------------------- *)
(* The life of a memory bank: initialize_memory_bank, more than once, on   *)
(* project directories of several kinds, with a failing step, and the      *)
(* appends in between.                                                     *)
(* ----------------------------------------------------------------------- *)

MaxSetups == 2

\* package.json is there and does not parse
DirBroken ==
    Directory(Manifest(FALSE, "demo", "1.0.0", "", "MIT", <<"react">>, <<"typescript">>),
              TRUE, <<File("json", "package.json"), File("ts", "index.ts")>>)

\* readdir fails
DirUnlisted == Directory(NoManifest, FALSE, <<>>)

ProjectDirectories == {DirBare, DirReact, DirBroken, DirUnlisted}

InitLifecycle == Start({""}, Budget(MaxSetups, 1, 1, 1, MaxFaults))

NextLifecycle ==
    \/ \E dir \in ProjectDirectories, failAt \in 0..6 : InitializeMemoryBank("/p", dir, failAt)
    \/ UpdateContext("/p", SessionUpdate("2025-03-13", W("development"), W("task")), TRUE)
    \/ RecordDecision("/p", Decision(W("t"), W("d"), W("r"), "proposed", <<>>, "",
                                     NoList, NoList), TRUE)
    \/ CallTrackProgress("/p", Progress(List(<<A>>), List(<<>>), NoList))
    \/ TrackStep

SpecLifecycle == InitLifecycle /\ [][NextLifecycle]_vars

\* a step in which initialize_memory_bank ran on project p for directory dir
Initializes(p, dir) ==
    /\ calls'.initialize = calls.initialize + 1
    /\ log'.last.project = p
    /\ log'.last.input = dir

\* the templates initialize_memory_bank writes today for dir
Template(dir, d) == Present(InitialFiles(dir, Now, ClockTime)[DocIndex(d)])

\* C13: initialize_memory_bank creates a document only when it is absent: it
\* leaves a document that exists as it is, with every entry appended to it
C13_CreatedOnce ==
    [][\A p \in Projects, dir \in ProjectDirectories :
          Initializes(p, dir) =>
              \A d \in DocNames :
                  files[p][d].exists =>
                      /\ files'[p][d] = files[p][d]
                      /\ ContainsInOrder(files'[p][d].text, log.blocks[p][d])]_vars

\* C14: initialize_memory_bank on a project whose manifest is missing or does
\* not parse fails only when a step on the file system fails; when it returns
\* its confirmation all four documents are there and the project context
\* carries the name Unknown, the version 0.1.0 and no dependency
C14_ManifestDefaults ==
    (log.last.op = "initialize_memory_bank" /\ log.last.project \in Projects
        /\ ~log.last.input.manifest.readable) =>
        IF log.last.ok
        THEN LET context == files[log.last.project]["projectContext.md"].text
             IN  /\ \A d \in DocNames : files[log.last.project][d].exists
                 /\ Includes(context, <<NL, "Unknown", SP, "-", SP, "No description provided",
                                        NL, "Version:", SP, "0.1.0", NL>>)
                 /\ Includes(context, <<"Core:", NL, "None", NL, NL,
                                        "Development:", NL, "None", NL>>)
        ELSE response.cause \in {Denied, "Failed to update MCP settings"}

C14_Witness ==
    /\ log.last.op = "initialize_memory_bank"
    /\ log.last.ok
    /\ log.last.input = DirBroken
    /\ Includes(files["/p"]["projectContext.md"].text, W("Unknown"))
    /\ \A d \in DocNames : files["/p"][d].exists

\* the memory-bank directory is made before any document is written, and the
\* settings file is updated after all four were
StepsInOrder ==
    \A p \in Projects :
        /\ \A d \in DocNames : files[p][d].exists => p \in dirs
        /\ \A k \in 2..Len(Docs) : files[p][Docs[k]].exists => files[p][Docs[k - 1]].exists
        /\ settings = p => \A d \in DocNames : files[p][d].exists

Confirms ==
    response' = Ok("initialize_memory_bank",
                   "Memory Bank initialized successfully and MCP settings configured")

\* C15: when initialize_memory_bank returns its confirmation the memory-bank
\* directory exists, the four documents hold their initial templates and the
\* settings file registers the project; the directory comes before the
\* documents and the settings update after them
C15_InitializedInOrder ==
    /\ [](StepsInOrder)
    /\ [][\A p \in Projects, dir \in ProjectDirectories :
             (Initializes(p, dir) /\ Confirms) =>
                 /\ p \in dirs'
                 /\ \A d \in DocNames : files'[p][d] = Template(dir, d)
                 /\ settings' = p]_vars

C15_Witness ==
    /\ log.last.op = "initialize_memory_bank"
    /\ log.last.ok
    /\ calls.initialize = 2
    /\ faults = 1
    /\ "/p" \in dirs
    /\ settings = "/p"
    /\ \A d \in DocNames : files["/p"][d] = Template(log.last.input, d)

\* C16: when a step of initialize_memory_bank fails the call reports a failure
\* and no confirmation, the steps after the failing one are not taken, and the
\* documents written before it stay written
C16_NoRollback ==
    [][\A p \in Projects, dir \in ProjectDirectories :
          (Initializes(p, dir) /\ faults' = faults + 1) =>
              /\ response'.kind = "InternalError"
              /\ response'.text = "Failed to initialize Memory Bank"
              /\ settings' = settings
              /\ \E k \in 0..(Len(Docs) + 1) :
                    /\ k = 0 => dirs' = dirs
                    /\ k > 0 => p \in dirs'
                    /\ \A d \in DocNames :
                          files'[p][d] = IF DocIndex(d) < k THEN Template(dir, d)
                                         ELSE files[p][d]
                    /\ k = Len(Docs) + 1 <=> response'.cause = "Failed to update MCP settings"]_vars

C16_Witness ==
    /\ log.last.op = "initialize_memory_bank"
    /\ ~log.last.ok
    /\ response.kind = "InternalError"
    /\ calls.initialize = 1
    /\ files["/p"]["projectContext.md"] = Template(log.last.input, "projectContext.md")
    /\ files["/p"]["activeContext.md"].exists
    /\ ~files["/p"]["progress.md"].exists
    /\ settings = ""

(* ----------------------------------------------------------------------- *)
(* Requests that cannot be served: arguments that are missing, and         *)
(* projects that have no memory bank.                                      *)
(* ----------------------------------------------------------------------- *)

MaxRequests == 2

ProjectPaths == {NoArguments, "", "/p", "/q"}

InitRequests == Start({""}, Budget(1, MaxRequests, MaxRequests, MaxRequests, 0))

NextRequests ==
    \/ \E p \in ProjectPaths : InitializeMemoryBank(p, DirBare, 6)
    \/ \E p \in ProjectPaths,
          content \in {NoArgument, SessionUpdate("2025-03-13", W("development"), W("task"))} :
          UpdateContext(p, content, TRUE)
    \/ \E p \in ProjectPaths,
          decision \in {NoArgument, Decision(W("t"), W("d"), W("r"), "accepted", <<>>, "",
                                             NoList, NoList)} :
          RecordDecision(p, decision, TRUE)
    \/ \E p \in ProjectPaths, progress \in {NoArgument, Progress(List(<<A>>), List(<<B>>), NoList)} :
          CallTrackProgress(p, progress)
    \/ TrackStep

SpecRequests == InitRequests /\ [][NextRequests]_vars

\* a step in which a handler was called with arguments that lack a required field
CalledWithout ==
    /\ calls' # calls
    /\ tasks' = tasks
    /\ Unusable(log'.last.project, log'.last.input)

\* C17: an operation called without a required top-level field fails with the
\* missing-argument error (InvalidParams) before any file is read, made or
\* changed, and leaves the session counter and the accumulator as they were
C17_MissingArgument ==
    [][CalledWithout =>
          /\ response'.kind = "InvalidParams"
          /\ files' = files
          /\ dirs' = dirs
          /\ settings' = settings
          /\ sessionState' = sessionState]_vars

\* a step that ends the read of update_context or record_decision on project p
Reads(p, d) ==
    /\ log'.last.project = p
    /\ ~Unusable(p, log'.last.input)
    /\ \/ d = "activeContext.md" /\ calls'.context = calls.context + 1
       \/ d = "decisionLog.md" /\ calls'.decision = calls.decision + 1

\* a step that ends the read of the caller's track_progress on project p
ReadsProgress(p) ==
    /\ \E i \in DOMAIN tasks :
           tasks[i].origin = "caller" /\ tasks[i].pc = "read" /\ tasks[i].projectPath = p
    /\ ~\E i \in DOMAIN tasks' : tasks'[i].origin = "caller" /\ tasks'[i].pc = "read"
    /\ ~crashed'

\* C18: update_context, record_decision and track_progress on a project whose
\* document does not exist fail with an error that carries the not-found
\* message, return no confirmation and make or change no document
C18_NotFound ==
    [][\A p \in Projects, d \in DocNames :
          (~files[p][d].exists /\ (Reads(p, d) \/ (d = "progress.md" /\ ReadsProgress(p)))) =>
              /\ response'.kind = "InternalError"
              /\ response'.cause = NotFound
              /\ response'.op = log'.last.op
              /\ ~log'.last.ok
              /\ files' = files
              /\ dirs' = dirs]_vars

C18_Witness ==
    /\ response.op = "track_progress"
    /\ response.kind = "InternalError"
    /\ response.cause = NotFound
    /\ log.last.project = "/q"
    /\ files["/p"]["progress.md"].exists
    /\ ~files["/q"]["progress.md"].exists
    /\ calls.context > 0 /\ calls.decision > 0

(* ----------------------------------------------------------------------- *)
(* Resource reads, with and without PROJECT_PATH, on a project whose       *)
(* memory bank is absent, partly written or complete.                      *)
(* ----------------------------------------------------------------------- *)

Uris ==
    {"memory://project/context", "memory://active/context", "memory://progress",
     "memory://decisions", "memory://other", ""}

InitResources == Start({"", "/p", "/q"}, Budget(MaxInit, 0, 0, 0, MaxFaults))

NextResources ==
    \/ \E failAt \in 0..6 : InitializeMemoryBank("/p", DirBare, failAt)
    \/ \E uri \in Uris : ReadResource(uri)

SpecResources == InitResources /\ [][NextResources]_vars

\* C19: a resource read without PROJECT_PATH fails with InvalidRequest
\* whatever the identifier, before the identifier is resolved; a read with
\* PROJECT_PATH set, of a recognised identifier whose document does not
\* exist, fails with another kind of error
C19_Unconfigured ==
    \A r \in log.reads :
        /\ ~r.configured => r.kind = "InvalidRequest"
        /\ (r.configured /\ r.known /\ ~r.found) => r.kind \notin {"ok", "InvalidRequest"}

C19_Witness ==
    /\ env = ""
    /\ \E r \in log.reads : ~r.configured /\ r.known
    /\ \E r \in log.reads : ~r.configured /\ ~r.known
    /\ response.kind = "InvalidRequest"
    /\ \A d \in DocNames : files["/p"][d].exists

\* C20: a resource read with an identifier that is not one of the four fails
\* with an error of another kind than a read of a recognised identifier whose
\* document cannot be read
C20_InvalidResource ==
    \A unknown, missing \in log.reads :
        (unknown.configured /\ ~unknown.known
            /\ missing.configured /\ missing.known /\ ~missing.found)
               => unknown.kind # missing.kind

(* Reading the four resources of the project PROJECT_PATH names, between    *)
(* the operations that write its documents.                                *)
ResourceUris ==
    <<"memory://project/context", "memory://active/context", "memory://progress",
      "memory://decisions">>

InitReading == Start(Projects, Budget(MaxSetups, 1, 1, 1, MaxFaults))

NextReading ==
    \/ \E p \in Projects : InitializeMemoryBank(p, DirBare, 6)
    \/ \E writeOk \in BOOLEAN :
          UpdateContext("/p", SessionUpdate("2025-03-13", W("development"), W("task")), writeOk)
    \/ RecordDecision("/p", Decision(W("t"), W("d"), W("r"), "accepted", <<>>, "",
                                     NoList, NoList), TRUE)
    \/ CallTrackProgress("/p", Progress(List(<<A>>), List(<<B>>), NoList))
    \/ TrackStep
    \/ \E k \in DOMAIN ResourceUris : ReadResource(ResourceUris[k])

SpecReading == InitReading /\ [][NextReading]_vars

\* this step is a resources/read of the k-th resource
ReadsResource(k) ==
    /\ log'.last.op = "read_resource"
    /\ log'.last.input = [uri |-> ResourceUris[k]]
    /\ tasks' = tasks
    /\ today' = today

\* the operation completed last wrote the k-th document of PROJECT_PATH, and
\* no automatic save is under way
WroteLast(k) ==
    /\ log.last.ok
    /\ log.last.project = env
    /\ tasks = <<>>
    /\ log.last.op = <<"initialize_memory_bank", "update_context", "track_progress",
                       "record_decision">>[k]
          \/ log.last.op = "initialize_memory_bank"

\* the text it wrote there
TextWritten(k) ==
    IF log.last.op = "initialize_memory_bank"
    THEN Template(log.last.input, Docs[k]).text
    ELSE log.last.post

C22_DefaultAccepted ==
    (log.last.op = "record_decision" /\ log.last.ok /\ log.last.input.status = Undefined) =>
        /\ log.last.block = NewDecision([log.last.input EXCEPT !.status = "accepted"], Now)
        /\ Includes(log.last.block, <<"**Status:**", SP, "accepted">>)
        /\ PlacedIn(TechnicalLabel, log.last.pre, log.last.post, log.last.block)

(* initialize_memory_bank over project directories that hold the same      *)
(* files in the different orders readdir may list them, and manifests     *)
(* that name frameworks.                                                   *)
Listings ==
    { <<File("ts", "index.ts"), File("js", "a.js"), File("json", "package.json")>>,
      <<File("js", "a.js"), File("ts", "index.ts"), File("json", "package.json")>>,
      <<File("json", "package.json"), File("js", "a.js"), File("js", "b.js")>>,
      <<File("md", "README.md")>> }

Manifests ==
    { Manifest(TRUE, "demo", "1.0.0", "", "MIT", deps, devDeps) :
        deps \in {<<"react">>, <<"nestjs", "@nestjs/core">>, <<"@nestjs/core", "express">>},
        devDeps \in {<<>>, <<"typescript">>} }

InspectedDirectories ==
    {Directory(manifest, TRUE, listing) : manifest \in Manifests, listing \in Listings}

InitInspect == Start({""}, Budget(MaxSetups, 0, 0, 0, 0))

NextInspect ==
    \E p \in Projects, dir \in InspectedDirectories : InitializeMemoryBank(p, dir, 6)

SpecInspect == InitInspect /\ [][NextInspect]_vars

\* the last request was an initialize_memory_bank of p that succeeded
Inspected(p) ==
    /\ log.last.op = "initialize_memory_bank"
    /\ log.last.ok
    /\ log.last.project = p

\* two directories that differ at most in the order their files are listed:
\* the same manifest, the same sets of detected languages and config files
SameButOrder(dir, other) ==
    /\ dir.manifest = other.manifest
    /\ Range(detectTechStack(dir).languages) = Range(detectTechStack(other).languages)
    /\ Range(detectTechStack(dir).configs) = Range(detectTechStack(other).configs)

\* C23: the project-context text initialize_memory_bank writes depends only
\* on the set of detected languages, not on the order they were detected in
C23_OrderIrrelevant ==
    \A p \in Projects, other \in InspectedDirectories :
        (Inspected(p) /\ SameButOrder(log.last.input, other)) =>
            files[p]["projectContext.md"].text
                = formatProjectContext(getProjectInfo(other.manifest), detectTechStack(other))

NoRepeats(items) == \A i, j \in DOMAIN items : items[i] = items[j] => i = j

\* C24: for every manifest, the framework list detected by
\* initialize_memory_bank holds each framework label at most once
C24_FrameworksOnce ==
    \A p \in Projects :
        Inspected(p) =>
            /\ NoRepeats(detectTechStack(log.last.input).frameworks)
            /\ \A e \in Range(frameworkDetection) :
                  ~Includes(files[p]["projectContext.md"].text, <<e[2], ",", SP, e[2]>>)

\* C25: the decision log initialize_memory_bank writes has a section
\* record_decision finds, and keeps one whatever record_decision calls
\* follow: every record_decision that returns its confirmation has put its
\* entry into the log, none has left the log as it was
C25_AlwaysAppended ==
    \A p \in Projects :
        LET current == files[p]["decisionLog.md"]
        IN  /\ current.exists => TargetSectionIndex(SectionsOf(current.text)) # 0
            /\ (log.last.op = "record_decision" /\ log.last.ok /\ log.last.project = p) =>
                   /\ log.last.post # log.last.pre
                   /\ Includes(log.last.post, log.last.block)
                   /\ current.text = log.last.post

C25_Witness ==
    /\ log.last.op = "record_decision"
    /\ log.last.ok
    /\ Len(log.blocks["/p"]["decisionLog.md"]) = MaxDecisions
    /\ Includes(log.last.pre, HeadedText(PendingLabel))
    /\ Includes(log.last.post, log.last.block)
    /\ Len(log.last.post) > Len(log.last.pre)

(* A long session: a server started on two projects whose memory banks     *)
(* exist, PROJECT_PATH naming one of them, and track_progress called for   *)
(* /p often enough for the threshold to be reached a second time.          *)
MaxCalls == 20

InitializedDisk ==
    [p \in Projects |->
        [d \in DocNames |-> Present(InitialFiles(DirBare, Dates[1], ClockTime)[DocIndex(d)])]]

TrackedProject == "/p"

InitSaves == StartOn(InitializedDisk, Projects, Projects, Budget(0, 0, 0, MaxCalls, 0))

\* the snapshot of the caller's call number no: a task the calls up to the
\* first threshold did not name is completed after it
SnapshotOfCall(no) ==
    Progress(List(IF no > Threshold THEN <<A, D>> ELSE <<A>>), List(<<B>>), NoList)

NextSaves ==
    \/ CallTrackProgress(TrackedProject, SnapshotOfCall(calls.track + 1))
    \/ TrackStep

SpecSaves == InitSaves /\ [][NextSaves]_vars

\* C26: the automatic save is triggered by every tenth track_progress call of
\* the caller, the 10th, the 20th and so on; the save's own write is not
\* counted, so ten calls of the caller lie between two successive saves
C26_EveryTenth ==
    \A k \in DOMAIN log.autos :
        /\ log.autos[k].trigger = "caller"
        /\ log.autos[k].no = Threshold * k

\* C27: a track_progress call for a project writes only to the progress
\* document of that project, and so does the automatic save it triggers: no
\* document of another project path is written
C27_OwnProjectOnly ==
    \A p \in Projects \ {TrackedProject}, d \in DocNames :
        /\ files[p][d] = InitializedDisk[p][d]
        /\ log.blocks[p][d] = <<>>

\* C28: the block written by a track_progress call of the caller gives as
\* Questions Processed the number of calls counted since the counter was last
\* reset, the call itself included: a number from 1 to 10, never 0
C28_QuestionsCounted ==
    (log.last.op = "track_progress" /\ log.last.ok) =>
        \E n \in 1..Threshold :
            Includes(log.last.block, <<"Questions Processed:", SP, ToString(n), NL>>)

\* C29: a track_progress call that fails, its read or its write failing,
\* leaves the session counter and the three accumulator sets as they were
\* and triggers no automatic save: while every call made has failed, the
\* session state is the one the server started with
C29_FailureLeavesState ==
    (calls.track >= 1 /\ calls.track = log.failed /\ tasks = <<>>) =>
        /\ sessionState = NewSession(Dates[1])
        /\ log.autos = <<>>

\* the names the accumulator holds, list by list
Held(st) ==
    [completed |-> Range(st.taskUpdates.completed),
     inProgress |-> Range(st.taskUpdates.inProgress),
     blocked |-> Range(st.taskUpdates.blocked)]

\* the automatic saves this step completes
SavedNow ==
    {k \in DOMAIN log.autos :
        log.autos[k].outcome = "running" /\ log'.autos[k].outcome = "saved"}

ListedBy(k, list, name) ==
    name \in ListedNames(log'.autos[k].block,
                         CASE list = "completed" -> "CHECK"
                           [] list = "inProgress" -> "ARROW"
                           [] list = "blocked" -> "WARN")

\* C30: no name is dropped from the accumulator without being in the block
\* of an automatic save: a name a step removes is listed by a save that
\* step completes, also a name added by a track_progress call that ran
\* after the save took its snapshot and before the save finished
C30_NothingDropped ==
    [][\A list \in {"completed", "inProgress", "blocked"} :
          \A name \in Held(sessionState)[list] \ Held(sessionState')[list] :
              \E k \in SavedNow : ListedBy(k, list, name)]_vars

====
